---- MODULE Spec2Model ----
(***************************************************************************)
(* Model of chrome-extension/assets/create_icons.py: the icon renderer     *)
(* create_icon(size, filename) and the driver main().                      *)
(*                                                                         *)
(* A canvas is a function from the pixels of a size x size image to RGBA   *)
(* tuples.  The Pillow calls of the script (Image.new, rounded_rectangle,  *)
(* rectangle, line, save) are modelled by what they do to the canvas and   *)
(* to the file system; every call frame of create_icon has its own locals. *)
(* Curved outlines are rasterised by pixel centres; no property below      *)
(* depends on which pixels of a corner or of a stroke's edge are painted.  *)
(*                                                                         *)
(* Spec    : main() over a fresh or a used directory.                      *)
(* SpecOne : one call create_icon(size, filename) with any small size.     *)
(* SpecPar : several invocations, their statements interleaved.            *)
(***************************************************************************)
EXTENDS Integers, Sequences, FiniteSets, TLC

VARIABLES
    pc,        \* per invocation of create_icon: the statement it is at
    size,      \* per invocation: its size argument
    filename,  \* per invocation: its filename argument
    img,       \* per invocation: its canvas
    calls,     \* per invocation: the drawing calls made, <<primitive, coordinates, width>>
    opens,     \* per invocation: how many times it opened a file for writing
    outcome,   \* per invocation: "ok" or the exception that left it
    files,     \* the file system: what is at each destination
    fsmode,    \* the file system: how it treats each destination
    written,   \* the names of the files opened for writing so far
    console,   \* the lines on standard output
    mpc,       \* where main is
    mi         \* main's position in sizes

vars == <<pc, size, filename, img, calls, opens, outcome,
          files, fsmode, written, console, mpc, mi>>

(* ------------------------------ bounds --------------------------------- *)

\* Largest size given to a single create_icon call in SpecOne.
MaxSize == 33

\* Sizes down to -MaxNeg are given to a single create_icon call in SpecOne.
MaxNeg == 5

\* Number of create_icon invocations that may be in progress at once in SpecPar.
NumProcs == 2

Procs == 1..NumProcs

(* --------------------------- integer helpers --------------------------- *)

Abs(n) == IF n < 0 THEN 0 - n ELSE n

Sgn(n) == IF n < 0 THEN 0 - 1 ELSE IF n > 0 THEN 1 ELSE 0

Max(a, b) == IF a >= b THEN a ELSE b

\* Python's floor division by a positive divisor (TLA+ \div floors as well).
FloorDiv(a, b) == a \div b

(* ------------------------------ colours -------------------------------- *)

Transparent == <<0, 0, 0, 0>>

\* bg_color = (102, 126, 234), painted on an RGBA canvas with full opacity.
bg_color == <<102, 126, 234, 255>>

\* fill='white' on an RGBA canvas.
White == <<255, 255, 255, 255>>

(* ---------------------- derived geometry of create_icon ---------------- *)

\* A renderer that forgets the inset of the panel.
margin_none(s) == 0

margin(s) == FloorDiv(s, 8)

radius(s) == FloorDiv(s, 6)

\* A renderer that forgets the max(1, ...) floor of the stroke width.
line_width_unguarded(s) == FloorDiv(s, 16)

line_width(s) == Max(1, FloorDiv(s, 16))

grid_margin(s) == FloorDiv(s, 4)

center(s) == FloorDiv(s, 2)

\* A renderer whose glyph is as large as half the canvas.
x_size_half(s) == FloorDiv(s, 2)

x_size(s) == FloorDiv(s, 8)

x_center_x(s) == center(s) + FloorDiv(s, 8)

x_center_y(s) == center(s) - FloorDiv(s, 8)

\* The coordinate lists handed to the drawing primitives, [x0, y0, x1, y1].
PanelBox(s) == <<margin(s), margin(s), s - margin(s), s - margin(s)>>

BarVBox(s) == <<center(s) - FloorDiv(line_width(s), 2), grid_margin(s),
                center(s) + FloorDiv(line_width(s), 2), s - grid_margin(s)>>

BarHBox(s) == <<grid_margin(s), center(s) - FloorDiv(line_width(s), 2),
                s - grid_margin(s), center(s) + FloorDiv(line_width(s), 2)>>

Line1Ends(s) == <<x_center_x(s) - x_size(s), x_center_y(s) - x_size(s),
                  x_center_x(s) + x_size(s), x_center_y(s) + x_size(s)>>

Line2Ends(s) == <<x_center_x(s) - x_size(s), x_center_y(s) + x_size(s),
                  x_center_x(s) + x_size(s), x_center_y(s) - x_size(s)>>

(* ------------------------------ the canvas ----------------------------- *)

Pixels(s) == (0..(s - 1)) \X (0..(s - 1))

\* Image.new('RGBA', (size, size), (0, 0, 0, 0)): every pixel transparent.
ImageNew(s) == [p \in Pixels(s) |-> Transparent]

\* Painting a region with an opaque colour replaces the pixels of the region
\* that lie on the canvas; the rest of the region is clipped away.
Fill(im, region, colour) ==
    [p \in DOMAIN im |-> IF p \in region THEN colour ELSE im[p]]

Ordered(box) == box[1] <= box[3] /\ box[2] <= box[4]

\* ImageDraw.rectangle: the corners are inclusive.
RectPixels(s, box) ==
    {p \in Pixels(s) : /\ box[1] <= p[1] /\ p[1] <= box[3]
                       /\ box[2] <= p[2] /\ p[2] <= box[4]}

\* ImageDraw.ellipse in the bounding box: the pixels whose centre lies in the
\* ellipse inscribed in the box.
EllipsePixels(s, box) ==
    LET a == box[3] - box[1] + 1
        b == box[4] - box[2] + 1
    IN  {p \in RectPixels(s, box) :
            ((2 * p[1] - box[1] - box[3]) * (2 * p[1] - box[1] - box[3])) * (b * b)
          + ((2 * p[2] - box[2] - box[4]) * (2 * p[2] - box[2] - box[4])) * (a * a)
          <= (a * a) * (b * b)}

\* ImageDraw.rounded_rectangle with a fill, for a square box as create_icon
\* passes it: corners joined on both axes make an ellipse, no curve makes a
\* rectangle, and otherwise four quarter discs of diameter d join a centre
\* rectangle and a left and a right rectangle.
RoundedRectPixels(s, box, rad) ==
    LET x0 == box[1]
        y0 == box[2]
        x1 == box[3]
        y1 == box[4]
        d0 == 2 * rad
        full_x == d0 >= x1 - x0 - 1
        d1 == IF full_x THEN x1 - x0 ELSE d0
        full_y == d1 >= y1 - y0 - 1
        d == IF full_y THEN y1 - y0 ELSE d1
        r == FloorDiv(d, 2)
        corner(cx0, cy0) == EllipsePixels(s, <<cx0, cy0, cx0 + d, cy0 + d>>)
    IN  IF full_x /\ full_y THEN EllipsePixels(s, box)
        ELSE IF d = 0 THEN RectPixels(s, box)
        ELSE   (corner(x0, y0) \cap RectPixels(s, <<x0, y0, x0 + r, y0 + r>>))
          \cup (corner(x1 - d, y0) \cap RectPixels(s, <<x1 - r, y0, x1, y0 + r>>))
          \cup (corner(x1 - d, y1 - d) \cap RectPixels(s, <<x1 - r, y1 - r, x1, y1>>))
          \cup (corner(x0, y1 - d) \cap RectPixels(s, <<x0, y1 - r, x0 + r, y1>>))
          \cup (IF x1 - r - 1 > x0 + r + 1
                THEN RectPixels(s, <<x0 + r + 1, y0, x1 - r - 1, y1>>) ELSE {})
          \cup RectPixels(s, <<x0, y0 + r + 1, x0 + r, y1 - r - 1>>)
          \cup RectPixels(s, <<x1 - r, y0 + r + 1, x1, y1 - r - 1>>)

\* The one-pixel line of the rasteriser (Bresenham); both ends are painted.
RECURSIVE BresenhamFrom(_, _, _, _, _, _, _, _, _)
BresenhamFrom(x, y, e, left, dx2, dy2, xs, ys, steep) ==
    IF left = 0 THEN {<<x, y>>}
    ELSE IF steep
         THEN LET x2 == IF e >= 0 THEN x + xs ELSE x
                  e2 == (IF e >= 0 THEN e - dy2 ELSE e) + dx2
              IN  {<<x, y>>} \cup
                  BresenhamFrom(x2, y + ys, e2, left - 1, dx2, dy2, xs, ys, steep)
         ELSE LET y2 == IF e >= 0 THEN y + ys ELSE y
                  e2 == (IF e >= 0 THEN e - dx2 ELSE e) + dy2
              IN  {<<x, y>>} \cup
                  BresenhamFrom(x + xs, y2, e2, left - 1, dx2, dy2, xs, ys, steep)

ThinLinePoints(ends) ==
    LET dx == Abs(ends[3] - ends[1])
        dy == Abs(ends[4] - ends[2])
        xs == Sgn(ends[3] - ends[1])
        ys == Sgn(ends[4] - ends[2])
    IN  IF dx > dy
        THEN BresenhamFrom(ends[1], ends[2], 2 * dy - dx, dx, 2 * dx, 2 * dy, xs, ys, FALSE)
        ELSE BresenhamFrom(ends[1], ends[2], 2 * dx - dy, dy, 2 * dx, 2 * dy, xs, ys, TRUE)

\* floor(v + 1/2) and ceil(v - 1/2) for v = q * a / (2 * sqrt(h2)) >= 0,
\* computed in integers: 2k - 1 <= 2v  iff  2k - 1 <= 0 or (2k-1)^2 h2 <= q^2 a^2.
HalfUp(q, a, h2) ==
    LET ok(k) == 2 * k - 1 <= 0 \/ (2 * k - 1) * (2 * k - 1) * h2 <= q * q * a * a
    IN  CHOOSE k \in 0..(q + 1) : ok(k) /\ ~ok(k + 1)

HalfDown(q, a, h2) ==
    LET ok(k) == (2 * k + 1) * (2 * k + 1) * h2 >= q * q * a * a
    IN  CHOOSE k \in 0..(q + 1) : ok(k) /\ (k = 0 \/ ~ok(k - 1))

\* The four vertices of the polygon the rasteriser fills for a line of
\* width > 1: the ends moved across the line by half the width, rounded.
WideLineVertices(ends, width) ==
    LET dx == ends[3] - ends[1]
        dy == ends[4] - ends[2]
        h2 == dx * dx + dy * dy
        q == width - 1
        dxmin == Sgn(dy) * HalfDown(q, Abs(dy), h2)
        dxmax == Sgn(dy) * HalfUp(q, Abs(dy), h2)
        dymin == Sgn(dx) * HalfDown(q, Abs(dx), h2)
        dymax == Sgn(dx) * HalfUp(q, Abs(dx), h2)
    IN  << <<ends[1] - dxmin, ends[2] + dymax>>,
           <<ends[3] - dxmin, ends[4] + dymax>>,
           <<ends[3] + dxmax, ends[4] - dymin>>,
           <<ends[1] + dxmax, ends[2] - dymin>> >>

Cross(a, b, p) == (b[1] - a[1]) * (p[2] - a[2]) - (b[2] - a[2]) * (p[1] - a[1])

\* A pixel is filled when it lies in the (convex) polygon, edges included.
InQuad(v, p) ==
    LET c == [k \in 1..4 |-> Cross(v[k], v[(k % 4) + 1], p)]
    IN  /\ \/ \A k \in 1..4 : c[k] >= 0
           \/ \A k \in 1..4 : c[k] <= 0
        /\ \E j, k \in 1..4 : v[j][1] <= p[1] /\ p[1] <= v[k][1]
        /\ \E j, k \in 1..4 : v[j][2] <= p[2] /\ p[2] <= v[k][2]

\* ImageDraw.line(ends, width): one pixel wide for width <= 1, the filled
\* polygon otherwise; a line with equal ends is a point.
LinePixels(s, ends, width) ==
    IF width <= 1 \/ (ends[1] = ends[3] /\ ends[2] = ends[4])
    THEN ThinLinePoints(ends) \cap Pixels(s)
    ELSE LET v == WideLineVertices(ends, width)
         IN  {p \in Pixels(s) : InQuad(v, p)}

(* --------------------------- names and lines --------------------------- *)

\* sizes = [16, 32, 48, 128]
sizes == <<16, 32, 48, 128>>

\* f"icon{size}.png"
IconName(s) == "icon" \o ToString(s) \o ".png"

\* A report that gives the size once.
CreatedLineOnce(f, s) ==
    "Created " \o f \o " (" \o ToString(s) \o ")"

\* f"Created {filename} ({size}x{size})"
CreatedLine(f, s) ==
    "Created " \o f \o " (" \o ToString(s) \o "x" \o ToString(s) \o ")"

SummaryLine == "All icons created successfully!"

MainNames == {IconName(sizes[k]) : k \in 1..Len(sizes)}

(* ------------------------------ the files ------------------------------ *)

\* What is at a destination: nothing, a file from before the run, a file left
\* truncated or half written, or a PNG holding the pixels of a canvas (the
\* encoding is lossless, so the file is modelled by the pixels it decodes to).
NoFile == [kind |-> "none"]

OldFile == [kind |-> "old"]

PartialFile == [kind |-> "partial"]

PngFile(im) == [kind |-> "png", data |-> im]

\* What the file system does with a destination: "ok" takes the write,
\* "no_open" refuses to create or open it (missing directory, permission
\* denied), "no_space" opens it and fails while the data is written.
Modes == {"ok", "no_open", "no_space"}

(* --------------------------- create_icon frames ------------------------ *)

\* A renderer that paints the panel after the grid and the glyph.
StepsPanelLast == <<"new", "bar_v", "bar_h", "line1", "line2", "panel", "save", "print">>

\* A renderer that reports before it saves.
StepsReportFirst == <<"new", "panel", "bar_v", "bar_h", "line1", "line2", "print", "save">>

\* The statements of create_icon in program order.
Steps == <<"new", "panel", "bar_v", "bar_h", "line1", "line2", "save", "print">>

After(step) ==
    LET k == CHOOSE j \in 1..Len(Steps) : Steps[j] = step
    IN  IF k < Len(Steps) THEN Steps[k + 1] ELSE "returned"

\* A renderer that keeps its canvas in a module-level global.
CanvasShared(i) == 1

\* img is a local of the invocation: the frame whose canvas invocation i
\* creates, draws on and saves is its own.
Canvas(i) == i

Enter(i, s, f) ==
    /\ pc[i] = "idle"
    /\ pc' = [pc EXCEPT ![i] = Steps[1]]
    /\ size' = [size EXCEPT ![i] = s]
    /\ filename' = [filename EXCEPT ![i] = f]
    /\ calls' = [calls EXCEPT ![i] = <<>>]
    /\ opens' = [opens EXCEPT ![i] = 0]
    /\ outcome' = [outcome EXCEPT ![i] = "none"]
    /\ UNCHANGED <<img, files, fsmode, written, console>>

Raise(i, e) ==
    /\ pc' = [pc EXCEPT ![i] = "raised"]
    /\ outcome' = [outcome EXCEPT ![i] = e]

\* Line 11-12: Image.new rejects a negative size with ValueError.
New(i) ==
    /\ pc[i] = "new"
    /\ IF size[i] < 0
       THEN Raise(i, "ValueError") /\ UNCHANGED img
       ELSE /\ img' = [img EXCEPT ![Canvas(i)] = ImageNew(size[i])]
            /\ pc' = [pc EXCEPT ![i] = After("new")]
            /\ UNCHANGED outcome
    /\ UNCHANGED <<size, filename, calls, opens, files, fsmode, written, console, mpc, mi>>

\* One call of a drawing primitive: the call and its arguments are recorded;
\* rectangle and rounded_rectangle reject corners out of order with ValueError.
Draw(i, step, kind, coords, width, region) ==
    /\ pc[i] = step
    /\ calls' = [calls EXCEPT ![i] = Append(@, <<kind, coords, width>>)]
    /\ IF kind # "line" /\ ~Ordered(coords)
       THEN Raise(i, "ValueError") /\ UNCHANGED img
       ELSE /\ img' = [img EXCEPT ![Canvas(i)] =
                          Fill(img[Canvas(i)], region,
                               IF kind = "rounded_rectangle" THEN bg_color ELSE White)]
            /\ pc' = [pc EXCEPT ![i] = After(step)]
            /\ UNCHANGED outcome
    /\ UNCHANGED <<size, filename, opens, files, fsmode, written, console, mpc, mi>>

\* Line 18-23.
Panel(i) ==
    Draw(i, "panel", "rounded_rectangle", PanelBox(size[i]), 0,
         RoundedRectPixels(size[i], PanelBox(size[i]), radius(size[i])))

\* Line 31.
BarV(i) ==
    Draw(i, "bar_v", "rectangle", BarVBox(size[i]), 0,
         RectPixels(size[i], BarVBox(size[i])))

\* Line 32.
BarH(i) ==
    Draw(i, "bar_h", "rectangle", BarHBox(size[i]), 0,
         RectPixels(size[i], BarHBox(size[i])))

\* Line 40.
Line1(i) ==
    Draw(i, "line1", "line", Line1Ends(size[i]), line_width(size[i]),
         LinePixels(size[i], Line1Ends(size[i]), line_width(size[i])))

\* Line 41.
Line2(i) ==
    Draw(i, "line2", "line", Line2Ends(size[i]), line_width(size[i]),
         LinePixels(size[i], Line2Ends(size[i]), line_width(size[i])))

\* Line 44: img.save(filename, 'PNG') opens the destination for writing, which
\* creates or truncates it, and then encodes.  A refused open raises OSError
\* and touches nothing.  The encoder rejects an empty image with SystemError
\* and a failing write raises OSError; on either, save removes the file if
\* this call created it and otherwise leaves the truncated file behind.
Save(i) ==
    LET f == filename[i]
        existed == files[f].kind # "none"
        left == IF existed THEN PartialFile ELSE NoFile
    IN  /\ pc[i] = "save"
        /\ IF fsmode[f] = "no_open"
           THEN Raise(i, "OSError") /\ UNCHANGED <<files, opens, written>>
           ELSE /\ opens' = [opens EXCEPT ![i] = @ + 1]
                /\ written' = written \cup {f}
                /\ IF size[i] = 0
                   THEN Raise(i, "SystemError") /\ files' = [files EXCEPT ![f] = left]
                   ELSE IF fsmode[f] = "no_space"
                   THEN Raise(i, "OSError") /\ files' = [files EXCEPT ![f] = left]
                   ELSE /\ files' = [files EXCEPT ![f] = PngFile(img[Canvas(i)])]
                        /\ pc' = [pc EXCEPT ![i] = After("save")]
                        /\ UNCHANGED outcome
        /\ UNCHANGED <<size, filename, img, calls, fsmode, console, mpc, mi>>

\* Line 45.
Report(i) ==
    /\ pc[i] = "print"
    /\ console' = Append(console, CreatedLine(filename[i], size[i]))
    /\ pc' = [pc EXCEPT ![i] = After("print")]
    /\ outcome' = [outcome EXCEPT ![i] = IF After("print") = "returned" THEN "ok" ELSE @]
    /\ UNCHANGED <<size, filename, img, calls, opens, files, fsmode, written, mpc, mi>>

create_icon(i) ==
    \/ New(i)
    \/ Panel(i)
    \/ BarV(i)
    \/ BarH(i)
    \/ Line1(i)
    \/ Line2(i)
    \/ Save(i)
    \/ Report(i)

\* The canvas create_icon(s, ...) has painted when nothing else runs.
RenderAlone(s) ==
    LET a == Fill(ImageNew(s), RoundedRectPixels(s, PanelBox(s), radius(s)), bg_color)
        b == Fill(a, RectPixels(s, BarVBox(s)), White)
        c == Fill(b, RectPixels(s, BarHBox(s)), White)
        d == Fill(c, LinePixels(s, Line1Ends(s), line_width(s)), White)
    IN  Fill(d, LinePixels(s, Line2Ends(s), line_width(s)), White)

(* ------------------------------- main ---------------------------------- *)

IdleFrames ==
    /\ pc = [i \in Procs |-> "idle"]
    /\ size = [i \in Procs |-> 0]
    /\ filename = [i \in Procs |-> ""]
    /\ img = [i \in Procs |-> <<>>]
    /\ calls = [i \in Procs |-> <<>>]
    /\ opens = [i \in Procs |-> 0]
    /\ outcome = [i \in Procs |-> "none"]

\* The script is run in a fresh directory or over the four files of an earlier
\* run, on a file system that may refuse any of the four names.
Init ==
    /\ IdleFrames
    /\ \E before \in {NoFile, OldFile} : files = [f \in MainNames |-> before]
    /\ fsmode \in [MainNames -> Modes]
    /\ written = {}
    /\ console = <<>>
    /\ mpc = "loop"
    /\ mi = 1

\* Line 51-53: the next size of the list is rendered.
MainCall ==
    /\ mpc = "loop"
    /\ mi <= Len(sizes)
    /\ Enter(1, sizes[mi], IconName(sizes[mi]))
    /\ mpc' = "call"
    /\ UNCHANGED mi

\* create_icon returned: the loop goes on with the next size.
MainReturn ==
    /\ mpc = "call"
    /\ pc[1] = "returned"
    /\ pc' = [pc EXCEPT ![1] = "idle"]
    /\ mi' = mi + 1
    /\ mpc' = "loop"
    /\ UNCHANGED <<size, filename, img, calls, opens, outcome, files, fsmode, written, console>>

\* create_icon raised: nothing in main catches it, the script ends there.
MainRaise ==
    /\ mpc = "call"
    /\ pc[1] = "raised"
    /\ mpc' = "failed"
    /\ UNCHANGED <<pc, size, filename, img, calls, opens, outcome, files, fsmode, written,
                   console, mi>>

\* Line 55.
MainSummary ==
    /\ mpc = "loop"
    /\ mi > Len(sizes)
    /\ console' = Append(console, SummaryLine)
    /\ mpc' = "done"
    /\ UNCHANGED <<pc, size, filename, img, calls, opens, outcome, files, fsmode, written, mi>>

Next ==
    \/ MainCall
    \/ MainReturn
    \/ MainRaise
    \/ MainSummary
    \/ \E i \in Procs : create_icon(i)

Spec == Init /\ [][Next]_vars

(* ------------------- one call with any size: SpecOne ------------------- *)

OneSizes == (0 - MaxNeg)..MaxSize

\* A destination in the working directory and one in another directory.
OneDests == {"out.png", "dir/out.png"}

InitOne ==
    /\ IdleFrames
    /\ files \in [OneDests -> {NoFile, OldFile}]
    /\ fsmode \in [OneDests -> Modes]
    /\ written = {}
    /\ console = <<>>
    /\ mpc = "test"
    /\ mi = 1

\* A caller other than main calls create_icon(s, f) once.
CallOne ==
    /\ mpc = "test"
    /\ \E s \in OneSizes, f \in OneDests : Enter(1, s, f)
    /\ mpc' = "called"
    /\ UNCHANGED mi

NextOne ==
    \/ CallOne
    \/ \E i \in Procs : create_icon(i)

SpecOne == InitOne /\ [][NextOne]_vars

(* --------------- invocations in any interleaving: SpecPar -------------- *)

\* The interleaved invocations render a small size or the driver's first.
ParSmall == 8

ParSizes == {ParSmall, sizes[1]}

\* Every invocation has a destination of its own; the file system may refuse
\* the first of them.
ParDest(i) == "par" \o ToString(i) \o ".png"

ParDests == {ParDest(i) : i \in Procs}

InitPar ==
    /\ IdleFrames
    /\ files = [f \in ParDests |-> NoFile]
    /\ \E m \in Modes : fsmode = [f \in ParDests |-> IF f = ParDest(1) THEN m ELSE "ok"]
    /\ written = {}
    /\ console = <<>>
    /\ mpc = "par"
    /\ mi = 1

\* Invocation i starts at any moment, whatever the others are doing.
CallPar(i) ==
    /\ mpc = "par"
    /\ \E s \in ParSizes : Enter(i, s, ParDest(i))
    /\ UNCHANGED <<mpc, mi>>

NextPar ==
    \/ \E i \in Procs : CallPar(i)
    \/ \E i \in Procs : create_icon(i)

SpecPar == InitPar /\ [][NextPar]_vars

(* ------------------------------ the claims ----------------------------- *)

Canonical == {16, 32, 48, 128}

\* All five drawing calls of invocation i have been made.
Painted(i) == Len(calls[i]) = 5

WroteFile(i) == pc[i] # "idle" /\ files[filename[i]].kind \in {"png", "partial"}

\* C1: a call of create_icon with size <= 0 ends in the error of the size
\* check (for this script, the ValueError of Image.new), the error is raised
\* before any file is opened for writing, and the call leaves no output file.
C1_NonPositiveSizeRejected ==
    \A i \in Procs :
        (pc[i] # "idle" /\ size[i] <= 0) =>
            /\ pc[i] # "returned"
            /\ opens[i] = 0
            /\ pc[i] = "raised" => (outcome[i] = "ValueError" /\ ~WroteFile(i))

\* C2: a run of main in which every write succeeds has opened for writing
\* exactly icon16.png, icon32.png, icon48.png and icon128.png, each of them is
\* a PNG, and the console holds exactly the four Created lines in the order of
\* the sizes and then the summary line; until then no other file is opened
\* and the console is a prefix of those five lines.
C2_FullRun ==
    LET names == {"icon16.png", "icon32.png", "icon48.png", "icon128.png"}
        lines == << "Created icon16.png (16x16)",
                    "Created icon32.png (32x32)",
                    "Created icon48.png (48x48)",
                    "Created icon128.png (128x128)",
                    "All icons created successfully!" >>
    IN  /\ written \subseteq names
        /\ Len(console) <= Len(lines)
        /\ \A n \in 1..Len(console) : console[n] = lines[n]
        /\ mpc = "done" =>
              /\ written = names
              /\ \A f \in names : files[f].kind = "png"
              /\ console = lines

C2_Witness ==
    /\ mpc = "done"
    /\ Len(console) = 5
    /\ Cardinality(written) = 4

\* C3: for every size s in {16, 32, 48, 128}, once the panel, the bars and the
\* glyph are painted, every pixel strictly outside the panel bounding box
\* [s/8, s - s/8] x [s/8, s - s/8] has alpha 0.
C3_OutsidePanelTransparent ==
    \A i \in Procs :
        (Painted(i) /\ size[i] \in Canonical) =>
            LET s == size[i]
                lo == s \div 8
                hi == s - (s \div 8)
            IN  \A p \in DOMAIN img[i] :
                    (p[1] < lo \/ p[1] > hi \/ p[2] < lo \/ p[2] > hi)
                        => img[i][p][4] = 0

C3_Witness ==
    /\ Painted(1)
    /\ size[1] = 128
    /\ img[1][<<15, 64>>][4] = 0
    /\ img[1][<<16, 64>>][4] = 255
    /\ \E p \in DOMAIN img[1] : img[1][p] = <<255, 255, 255, 255>>

\* C4: for every size in {16, 32, 48, 128}, every coordinate create_icon
\* passes to a drawing primitive lies in the canvas range 0 <= c < size.
C4_CoordinatesInCanvas ==
    \A i \in Procs :
        size[i] \in Canonical =>
            \A k \in 1..Len(calls[i]) :
                \A j \in 1..4 :
                    0 <= calls[i][k][2][j] /\ calls[i][k][2][j] < size[i]

C4_Witness ==
    /\ Painted(1)
    /\ size[1] = 128
    /\ calls[1][1] = <<"rounded_rectangle", <<16, 16, 112, 112>>, 0>>
    /\ calls[1][4] = <<"line", <<64, 32, 96, 64>>, 8>>

\* C5: for every positive size, the sizes 1..15 included, every line is drawn
\* with a width >= 1, no coordinate passed to a primitive is negative, every
\* rectangle has its first corner <= its second on both axes, and neither the
\* size nor the drawing raises: only a refused destination ends the call
\* with an error.
C5_PositiveSizesRender ==
    \A i \in Procs :
        (pc[i] # "idle" /\ size[i] >= 1) =>
            /\ \A k \in 1..Len(calls[i]) :
                  /\ calls[i][k][1] = "line" => calls[i][k][3] >= 1
                  /\ calls[i][k][1] # "line" =>
                        /\ calls[i][k][2][1] <= calls[i][k][2][3]
                        /\ calls[i][k][2][2] <= calls[i][k][2][4]
                  /\ \A j \in 1..4 : calls[i][k][2][j] >= 0
            /\ outcome[i] \notin {"ValueError", "SystemError"}
            /\ pc[i] = "raised" => (Painted(i) /\ fsmode[filename[i]] # "ok")

C5_Witness ==
    /\ pc[1] = "returned"
    /\ outcome[1] = "ok"
    /\ size[1] = 1
    /\ calls[1][4] = <<"line", <<0, 0, 0, 0>>, 1>>
    /\ files[filename[1]].kind = "png"

\* C6: when the destination of a create_icon call cannot be created or
\* written, the call ends in the write error (OSError), which reaches the
\* caller, and the call leaves no file, complete or partial, at the
\* destination.
C6_FailedWriteLeavesNoFile ==
    \A i \in Procs :
        (pc[i] = "raised" /\ size[i] >= 1 /\ fsmode[filename[i]] # "ok") =>
            /\ outcome[i] = "OSError"
            /\ ~WroteFile(i)

\* C7: two create_icon calls with the same size and different destinations
\* write pixel-identical images, whatever the destinations and whatever other
\* calls ran before or between their steps.
C7_SameSizeSamePixels ==
    \A i, j \in Procs :
        ( /\ pc[i] = "returned"
          /\ pc[j] = "returned"
          /\ size[i] = size[j]
          /\ filename[i] # filename[j] ) =>
            /\ files[filename[i]].kind = "png"
            /\ files[filename[j]].kind = "png"
            /\ files[filename[i]].data = files[filename[j]].data
            /\ img[i] = img[j]

C7_Witness ==
    /\ pc[1] = "returned"
    /\ pc[2] = "returned"
    /\ size[1] = 16
    /\ size[2] = 16
    /\ filename[1] # filename[2]
    /\ files[filename[1]].data[<<8, 8>>] = <<255, 255, 255, 255>>

\* What holds of every invocation at every moment of an interleaving.
C8_Inv ==
    \A i \in Procs :
        /\ opens[i] <= 1
        /\ opens[i] = 0 => files[ParDest(i)] = NoFile
        /\ pc[i] = "returned" =>
              /\ opens[i] = 1
              /\ files[filename[i]] = [kind |-> "png", data |-> RenderAlone(size[i])]

\* What a step leaves alone: everything of the invocations that did not move.
C8_Step ==
    \A i \in Procs :
        pc'[i] = pc[i] =>
            /\ size'[i] = size[i]
            /\ filename'[i] = filename[i]
            /\ img'[i] = img[i]
            /\ calls'[i] = calls[i]
            /\ opens'[i] = opens[i]
            /\ outcome'[i] = outcome[i]
            /\ files'[ParDest(i)] = files[ParDest(i)]

C9_DrawOrder ==
    \A i \in Procs :
        (Painted(i) /\ size[i] \in Canonical) =>
            LET s == size[i]
                over == RectPixels(s, BarVBox(s)) \cup RectPixels(s, BarHBox(s))
                        \cup LinePixels(s, Line1Ends(s), line_width(s))
                        \cup LinePixels(s, Line2Ends(s), line_width(s))
                panel == RoundedRectPixels(s, PanelBox(s), radius(s))
            IN  /\ img[i][<<s \div 2, s \div 2>>] = <<255, 255, 255, 255>>
                /\ \A p \in DOMAIN img[i] :
                      /\ p \in over => img[i][p] = <<255, 255, 255, 255>>
                      /\ (p \in panel /\ p \notin over) =>
                            img[i][p] = <<102, 126, 234, 255>>

C9_Witness ==
    /\ Painted(1)
    /\ size[1] = 16
    /\ img[1][<<8, 8>>] = <<255, 255, 255, 255>>
    /\ img[1][<<10, 6>>] = <<255, 255, 255, 255>>
    /\ img[1][<<3, 8>>] = <<102, 126, 234, 255>>

\* The state of the files and of the console at every moment of a run of main.
C10_Inv ==
    /\ \A k \in 1..Len(sizes) :
          (\E n \in 1..Len(console) :
              console[n] = CreatedLine(IconName(sizes[k]), sizes[k]))
            => files[IconName(sizes[k])].kind = "png"
    /\ \A k \in 1..Len(sizes) :
          /\ k < mi => files[IconName(sizes[k])].kind = "png"
          /\ k > mi => /\ files[IconName(sizes[k])].kind \in {"none", "old"}
                       /\ IconName(sizes[k]) \notin written
    /\ mpc = "call" => (size[1] = sizes[mi] /\ filename[1] = IconName(sizes[mi]))
    /\ mpc = "failed" =>
          /\ mi <= Len(sizes)
          /\ files[IconName(sizes[mi])].kind # "png"
          /\ \A n \in 1..Len(console) : console[n] # SummaryLine
    /\ (\E n \in 1..Len(console) : console[n] = SummaryLine) =>
          \A k \in 1..Len(sizes) : files[IconName(sizes[k])].kind = "png"

\* A failed run takes no further step.
C10_Stop == mpc = "failed" => UNCHANGED vars

\* C10: main is fail-stop and in order.  A Created line for a size is on the
\* console only when the file of that size has been written; the sizes before
\* the current one are written and the sizes after it are untouched; once a
\* render has failed nothing more happens, and the summary line is on the
\* console only when all four files have been written.
C10_FailStop == []C10_Inv /\ [][C10_Stop]_vars

C10_Witness ==
    /\ mpc = "failed"
    /\ mi = 3
    /\ outcome[1] = "OSError"
    /\ console = <<CreatedLine("icon16.png", 16), CreatedLine("icon32.png", 32)>>
    /\ files["icon128.png"].kind \in {"none", "old"}

====
